---- MODULE Spec2Model ----
(***************************************************************************)
(* Model of crunchyroll_beta/sync/api.py: the Crunchyroll client's session *)
(* (config), its baseline headers (api_headers), the request dispatcher    *)
(* (_make_request), the login sequence (_login), the expiry check          *)
(* (_update_session), the public operations and the playlist scan          *)
(* (get_formats).                                                          *)
(*                                                                         *)
(* The program is synchronous: one public call runs at a time.  An action  *)
(* runs the code of the active call up to the next HTTP request it sends,  *)
(* or from the response of that request up to the next request or to the   *)
(* return to the caller.  The server's answers and the clock are the       *)
(* environment.                                                            *)
(***************************************************************************)
EXTENDS Integers, Sequences, FiniteSets, TLC

\* ------------------------------------------------------------------ bounds
MaxTime == 1
NumTokens == 2
NumBundles == 2
MaxLines == 2
MaxLongLines == 4

Clients == {1}
TwoClients == {1, 2}
Times == 0..MaxTime

\* ------------------------------------------------------- Python dictionaries
\* A dict is a function from its keys; None is what dict.get gives for a
\* missing key.
None == <<"None">>
EmptyDict == <<>>
Get(d, k, default) == IF k \in DOMAIN d THEN d[k] ELSE default
Update(d, r) == r @@ d

\* ----------------------------------------------------------------- constants
AUTHORIZATION == <<"Basic", <<"client", 0, 0>>>>
TOKEN_ENDPOINT == "TOKEN_ENDPOINT"
INDEX_ENDPOINT == "INDEX_ENDPOINT"
PROFILE_ENDPOINT == "PROFILE_ENDPOINT"
SEARCH_ENDPOINT == "SEARCH_ENDPOINT"
SERIES_ENDPOINT == "SERIES_ENDPOINT"
SEASONS_ENDPOINT == "SEASONS_ENDPOINT"
EPISODES_ENDPOINT == "EPISODES_ENDPOINT"
STREAMS_ENDPOINT == "STREAMS_ENDPOINT"
SIMILAR_ENDPOINT == "SIMILAR_ENDPOINT"
NEWSFEED_ENDPOINT == "NEWSFEED_ENDPOINT"
BROWSE_ENDPOINT == "BROWSE_ENDPOINT"
\* The playlist url get_formats is given.
PLAYLIST == "PLAYLIST"

LoginEndpoints == {TOKEN_ENDPOINT, INDEX_ENDPOINT, PROFILE_ENDPOINT}
CmsEndpoints == {SERIES_ENDPOINT, SEASONS_ENDPOINT, EPISODES_ENDPOINT, STREAMS_ENDPOINT}

\* Crunchyroll.__init__: the baseline headers of a new client.
InitApiHeaders == [ua |-> "Mozilla", ct |-> "form"]

VARIABLES
    config,           \* config[c]: the session dict of client c
    api_headers,      \* api_headers[c]: the baseline headers of client c
    default_headers,  \* the one dict that is _make_request's default for headers
    now,              \* the clock get_date() reads
    pc,               \* "idle", or the request the active call waits on
    cur,              \* the active (or last) public call
    log,              \* the requests the active (or last) public call has sent
    last,             \* the last response and how _make_request classified it
    ret,              \* what the last public call gave its caller
    playlist,         \* the lines of the last playlist get_formats received
    started           \* the clients start() was ever called on

vars == <<config, api_headers, default_headers, now, pc, cur, log, last, ret, playlist,
          started>>

\* ------------------------------------------------------------ the server
\* f"{token_type} {access_token}"
Bearer(token_type, access_token) == <<token_type, access_token>>

CmsBundle(v, e) ==
    [bucket |-> <<"bucket", v>>, policy |-> <<"policy", v>>,
     signature |-> <<"signature", v>>, key_pair_id |-> <<"key_pair_id", v>>,
     expires |-> <<"date", e>>]

\* utils.str_to_date and utils.get_date: the timestamp of cms.expires parsed
\* into the clock's unit.
str_to_date(s) == s[2]
get_date == now

\* The error fields a body may carry.
ErrorParts ==
    { e @@ m @@ k :
        e \in {EmptyDict, [error |-> "invalid_grant"], [error |-> "other"]},
        m \in {EmptyDict, [message |-> "msg"]},
        k \in {EmptyDict, [code |-> "c"]} }

\* The error bodies the login endpoints answer with.
LoginErrorParts ==
    { [error |-> "invalid_grant"], [message |-> "msg", code |-> "c"] }

Payloads(c, endpoint) ==
    CASE endpoint = TOKEN_ENDPOINT ->
            { [access_token |-> <<"tok", c, v>>, token_type |-> "Bearer"] : v \in 1..NumTokens }
      [] endpoint = INDEX_ENDPOINT ->
            { [cms |-> CmsBundle(v, e)] : v \in 1..NumBundles, e \in Times }
      [] endpoint = PROFILE_ENDPOINT ->
            { [account_id |-> <<"acct", c>>] }
      [] OTHER ->
            { [items |-> <<"items", endpoint>>] }

Statuses == {200, 401}

\* Every answer the server may give: the endpoint's payload or a body of error
\* fields, under either status; json = FALSE is a body that does not decode.
Responses(c, endpoint) ==
    { [status |-> s, json |-> TRUE, body |-> b] :
        s \in Statuses,
        b \in Payloads(c, endpoint)
               \cup (IF endpoint \in LoginEndpoints THEN LoginErrorParts ELSE ErrorParts) }
    \cup { [status |-> s, json |-> FALSE, body |-> EmptyDict] : s \in Statuses }

\* --------------------------------------------------------- _make_request
\* The guard left out.
NotStartedNever(cfg, login) == FALSE

\* line 39: the guard of a non-login call.
NotStarted(cfg, login) == DOMAIN cfg = {} /\ ~login

\* The comparison taken the wrong way round.
ExpiredReversed(current_time, expires_time) == expires_time > current_time

\* _update_session, line 92.
Expired(current_time, expires_time) == current_time > expires_time

\* _update_session: whether it calls _login.
NeedsLogin(cfg, t) ==
    /\ "cms" \in DOMAIN cfg
    /\ Expired(t, str_to_date(cfg["cms"]["expires"]))

\* The new authorization not stored in the client's headers.
StaleApiHeaders(api, authorization) == api

\* line 82: self.api_headers.update(authorization).
LoginApiHeaders(api, authorization) == Update(api, authorization)

\* The merge taken the other way: the headers passed in win.
MergeHeadersCallerWins(headers, api) == Update(api, headers)

\* line 43: headers.update(self.api_headers).
MergeHeaders(headers, api) == Update(headers, api)

\* The message/code test put before the grant test.
ClassifyMessageFirst(r) ==
    IF ~r.json THEN "DecodeError"
    ELSE IF "message" \in DOMAIN r.body /\ "code" \in DOMAIN r.body THEN "ApiError"
    ELSE IF "error" \in DOMAIN r.body /\ r.body["error"] = "invalid_grant" THEN "AuthError"
    ELSE IF r.status # 200 THEN "HttpError" ELSE "ok"

\* The status test left out.
ClassifyIgnoreStatus(r) ==
    IF ~r.json THEN "DecodeError"
    ELSE IF "error" \in DOMAIN r.body
    THEN IF r.body["error"] = "invalid_grant" THEN "AuthError" ELSE "ok"
    ELSE IF "message" \in DOMAIN r.body /\ "code" \in DOMAIN r.body THEN "ApiError"
    ELSE "ok"

\* lines 51-62: what _make_request does with a response.
Classify(r) ==
    IF ~r.json THEN "DecodeError"
    ELSE IF "error" \in DOMAIN r.body
    THEN IF r.body["error"] = "invalid_grant" THEN "AuthError"
         ELSE IF r.status # 200 THEN "HttpError" ELSE "ok"
    ELSE IF "message" \in DOMAIN r.body /\ "code" \in DOMAIN r.body THEN "ApiError"
    ELSE IF r.status # 200 THEN "HttpError" ELSE "ok"

\* The request httpx.request is given.
Request(c, endpoint, url_args, params, headers, login) ==
    [client |-> c, endpoint |-> endpoint, url_args |-> url_args,
     params |-> params, headers |-> headers, login |-> login]

NoParams == EmptyDict
\* The frame of a public call: what it was given, and the clock and the
\* session as they were when it was made (logged_in: a login had completed;
\* first_start: start() had not been called before; token: the access token
\* the session held).
Call(c, op, endpoint, url_args, params, t, cfg, first) ==
    [client |-> c, op |-> op, endpoint |-> endpoint, url_args |-> url_args,
     params |-> params, called_at |-> t, first_start |-> first,
     logged_in |-> {"access_token", "cms", "account_id"} \subseteq DOMAIN cfg,
     had_cms |-> "cms" \in DOMAIN cfg,
     token |-> Get(cfg, "access_token", None),
     expires |-> IF "cms" \in DOMAIN cfg THEN str_to_date(cfg["cms"]["expires"]) ELSE 0]
NoCall == Call(0, "none", "none", <<>>, NoParams, 0, EmptyDict, FALSE)
NoLast == [status |-> 0, json |-> TRUE, body |-> EmptyDict, outcome |-> "none",
           endpoint |-> "none"]
NoRet == [client |-> 0, op |-> "none", status |-> "none", value |-> EmptyDict]

Init ==
    /\ config = [c \in Clients |-> EmptyDict]
    /\ api_headers = [c \in Clients |-> InitApiHeaders]
    /\ default_headers = EmptyDict
    /\ now = 0
    /\ pc = "idle"
    /\ cur = NoCall
    /\ log = <<>>
    /\ last = NoLast
    /\ ret = NoRet
    /\ playlist = <<>>
    /\ started = {}

\* ---------------------------------------------------------------- sending
\* _login, lines 65-77: the token request, with its own headers dict.
SendToken(c) ==
    /\ log' = Append(IF pc = "idle" THEN <<>> ELSE log,
                     Request(c, TOKEN_ENDPOINT, <<>>, NoParams,
                             MergeHeaders([Authorization |-> AUTHORIZATION], api_headers[c]),
                             TRUE))
    /\ pc' = TOKEN_ENDPOINT
    /\ UNCHANGED default_headers

\* A request made without headers: the default dict is updated and sent.
SendDefault(c, endpoint, url_args, params, login, hdrs, sofar) ==
    LET headers == MergeHeaders(default_headers, hdrs) IN
    /\ default_headers' = headers
    /\ log' = Append(sofar, Request(c, endpoint, url_args, params, headers, login))
    /\ pc' = endpoint

Return(c, op, status, value) ==
    /\ ret' = [client |-> c, op |-> op, status |-> status, value |-> value]
    /\ pc' = "idle"

\* ------------------------------------------------------------------ start
start(c) ==
    /\ pc = "idle"
    /\ cur' = Call(c, "start", "none", <<>>, NoParams, now, config[c], c \notin started)
    /\ started' = started \cup {c}
    /\ SendToken(c)
    /\ last' = NoLast
    /\ ret' = NoRet
    /\ playlist' = <<>>
    /\ UNCHANGED <<config, api_headers, now>>

\* ------------------------------------------------- the public operations
\* A public operation that goes through _make_request: its arguments are
\* evaluated by the caller (url_args, params), then lines 39-50 run.
ApiCall(c, op, endpoint, url_args, params) ==
    /\ pc = "idle"
    /\ last' = NoLast
    /\ playlist' = <<>>
    /\ UNCHANGED <<config, api_headers, now, started>>
    /\ cur' = Call(c, op, endpoint, url_args, params, now, config[c], c \notin started)
    /\ IF NotStarted(config[c], FALSE)
       THEN /\ log' = <<>>
            /\ Return(c, op, "NotStarted", EmptyDict)
            /\ UNCHANGED default_headers
       ELSE IF NeedsLogin(config[c], get_date)
       THEN /\ SendToken(c)
            /\ ret' = NoRet
       ELSE /\ SendDefault(c, endpoint, url_args, params, FALSE, api_headers[c], <<>>)
            /\ ret' = NoRet

Cms(cfg) == Get(cfg, "cms", EmptyDict)

\* The signing parameters a content operation puts in its params.
CmsParams(cfg) ==
    [Policy |-> Get(Cms(cfg), "policy", None),
     Signature |-> Get(Cms(cfg), "signature", None),
     KeyPairId |-> Get(Cms(cfg), "key_pair_id", None)]

search(c) == ApiCall(c, "search", SEARCH_ENDPOINT, <<>>, NoParams)

get_series(c) ==
    ApiCall(c, "get_series", SERIES_ENDPOINT,
            <<Get(Cms(config[c]), "bucket", None)>>, CmsParams(config[c]))

get_seasons(c) ==
    ApiCall(c, "get_seasons", SEASONS_ENDPOINT,
            <<Get(Cms(config[c]), "bucket", None)>>, CmsParams(config[c]))

get_episodes(c) ==
    ApiCall(c, "get_episodes", EPISODES_ENDPOINT,
            <<Get(Cms(config[c]), "bucket", None)>>, CmsParams(config[c]))

\* line 197: the stream id is cut out of the href of the Episode.
Hrefs == { <<"videos", "S1", "streams">> }
stream_id(href) == href[2]

get_streams(c) ==
    \E href \in Hrefs :
        ApiCall(c, "get_streams", STREAMS_ENDPOINT,
                <<Get(Cms(config[c]), "bucket", None), stream_id(href)>>,
                CmsParams(config[c]))

get_similar(c) ==
    ApiCall(c, "get_similar", SIMILAR_ENDPOINT,
            <<Get(config[c], "account_id", None)>>, NoParams)

news_feed(c) == ApiCall(c, "news_feed", NEWSFEED_ENDPOINT, <<>>, NoParams)

browse(c) == ApiCall(c, "browse", BROWSE_ENDPOINT, <<>>, NoParams)

\* ------------------------------------------------------------- responses
Received(r, endpoint) ==
    last' = [status |-> r.status, json |-> r.json, body |-> r.body,
             outcome |-> Classify(r), endpoint |-> endpoint]

\* The token step tried a second time after a failure.
TokenResponseRetried(c) ==
    /\ pc = TOKEN_ENDPOINT
    /\ cur.client = c
    /\ \E r \in Responses(c, TOKEN_ENDPOINT) :
        /\ Received(r, TOKEN_ENDPOINT)
        /\ IF Classify(r) # "ok"
           THEN IF Cardinality({ i \in DOMAIN log : log[i].endpoint = TOKEN_ENDPOINT }) < 2
                THEN /\ log' = Append(log, log[Len(log)])
                     /\ UNCHANGED <<config, api_headers, default_headers, pc, ret>>
                ELSE /\ Return(c, cur.op, Classify(r), EmptyDict)
                     /\ UNCHANGED <<config, api_headers, default_headers, log>>
           ELSE LET access_token == Get(r.body, "access_token", None)
                    token_type == Get(r.body, "token_type", "None")
                    authorization == [Authorization |-> Bearer(token_type, access_token)]
                    hdrs == LoginApiHeaders(api_headers[c], authorization)
                IN  /\ config' = [config EXCEPT ![c] = Update(@, r.body)]
                    /\ api_headers' = [api_headers EXCEPT ![c] = hdrs]
                    /\ SendDefault(c, INDEX_ENDPOINT, <<>>, NoParams, TRUE, hdrs, log)
                    /\ UNCHANGED ret
    /\ UNCHANGED <<now, cur, playlist, started>>

\* The validity check run by the login's own requests: the index request
\* finds the session expired and logs in again.
TokenResponseChecked(c) ==
    /\ pc = TOKEN_ENDPOINT
    /\ cur.client = c
    /\ \E r \in Responses(c, TOKEN_ENDPOINT) :
        /\ Received(r, TOKEN_ENDPOINT)
        /\ IF Classify(r) # "ok"
           THEN /\ Return(c, cur.op, Classify(r), EmptyDict)
                /\ UNCHANGED <<config, api_headers, default_headers, log>>
           ELSE LET access_token == Get(r.body, "access_token", None)
                    token_type == Get(r.body, "token_type", "None")
                    authorization == [Authorization |-> Bearer(token_type, access_token)]
                    hdrs == LoginApiHeaders(api_headers[c], authorization)
                IN  /\ config' = [config EXCEPT ![c] = Update(@, r.body)]
                    /\ api_headers' = [api_headers EXCEPT ![c] = hdrs]
                    /\ IF NeedsLogin(Update(config[c], r.body), get_date)
                       THEN /\ log' = Append(log,
                                     Request(c, TOKEN_ENDPOINT, <<>>, NoParams,
                                             MergeHeaders([Authorization |-> AUTHORIZATION], hdrs),
                                             TRUE))
                            /\ UNCHANGED <<pc, default_headers>>
                       ELSE SendDefault(c, INDEX_ENDPOINT, <<>>, NoParams, TRUE, hdrs, log)
                    /\ UNCHANGED ret
    /\ UNCHANGED <<now, cur, playlist, started>>

\* _login, lines 66-83: the token response, then the index request.
TokenResponse(c) ==
    /\ pc = TOKEN_ENDPOINT
    /\ cur.client = c
    /\ \E r \in Responses(c, TOKEN_ENDPOINT) :
        /\ Received(r, TOKEN_ENDPOINT)
        /\ IF Classify(r) # "ok"
           THEN /\ Return(c, cur.op, Classify(r), EmptyDict)
                /\ UNCHANGED <<config, api_headers, default_headers, log>>
           ELSE LET access_token == Get(r.body, "access_token", None)
                    token_type == Get(r.body, "token_type", "None")
                    authorization == [Authorization |-> Bearer(token_type, access_token)]
                    hdrs == LoginApiHeaders(api_headers[c], authorization)
                IN  /\ config' = [config EXCEPT ![c] = Update(@, r.body)]
                    /\ api_headers' = [api_headers EXCEPT ![c] = hdrs]
                    /\ SendDefault(c, INDEX_ENDPOINT, <<>>, NoParams, TRUE, hdrs, log)
                    /\ UNCHANGED ret
    /\ UNCHANGED <<now, cur, playlist, started>>

\* The index step with its error swallowed: _login goes on to the profile.
IndexResponseSwallowed(c) ==
    /\ pc = INDEX_ENDPOINT
    /\ cur.client = c
    /\ \E r \in Responses(c, INDEX_ENDPOINT) :
        /\ Received(r, INDEX_ENDPOINT)
        /\ config' = [config EXCEPT ![c] = IF Classify(r) = "ok" THEN Update(@, r.body) ELSE @]
        /\ SendDefault(c, PROFILE_ENDPOINT, <<>>, NoParams, TRUE, api_headers[c], log)
        /\ UNCHANGED ret
    /\ UNCHANGED <<api_headers, now, cur, playlist, started>>

\* _login, lines 83-85: the index response, then the profile request.
IndexResponse(c) ==
    /\ pc = INDEX_ENDPOINT
    /\ cur.client = c
    /\ \E r \in Responses(c, INDEX_ENDPOINT) :
        /\ Received(r, INDEX_ENDPOINT)
        /\ IF Classify(r) # "ok"
           THEN /\ Return(c, cur.op, Classify(r), EmptyDict)
                /\ UNCHANGED <<config, default_headers, log>>
           ELSE /\ config' = [config EXCEPT ![c] = Update(@, r.body)]
                /\ SendDefault(c, PROFILE_ENDPOINT, <<>>, NoParams, TRUE, api_headers[c], log)
                /\ UNCHANGED ret
    /\ UNCHANGED <<api_headers, now, cur, playlist, started>>

\* _login, lines 85-86, and the return into start or into _make_request
\* (lines 43-50), which sends the call's own request.
ProfileResponse(c) ==
    /\ pc = PROFILE_ENDPOINT
    /\ cur.client = c
    /\ \E r \in Responses(c, PROFILE_ENDPOINT) :
        /\ Received(r, PROFILE_ENDPOINT)
        /\ IF Classify(r) # "ok"
           THEN /\ Return(c, cur.op, Classify(r), EmptyDict)
                /\ UNCHANGED <<config, default_headers, log>>
           ELSE /\ config' = [config EXCEPT ![c] = Update(@, r.body)]
                /\ IF cur.op = "start"
                   THEN /\ Return(c, "start", "ok", EmptyDict)
                        /\ UNCHANGED <<default_headers, log>>
                   ELSE /\ SendDefault(c, cur.endpoint, cur.url_args, cur.params,
                                       FALSE, api_headers[c], log)
                        /\ UNCHANGED ret
    /\ UNCHANGED <<api_headers, now, cur, playlist, started>>

\* lines 51-62 for the call's own request, and the return to the caller.
OwnResponse(c) ==
    /\ pc \notin {"idle", PLAYLIST} \cup LoginEndpoints
    /\ pc = cur.endpoint
    /\ cur.client = c
    /\ \E r \in Responses(c, cur.endpoint) :
        /\ Received(r, cur.endpoint)
        /\ Return(c, cur.op, Classify(r), IF Classify(r) = "ok" THEN r.body ELSE EmptyDict)
    /\ UNCHANGED <<config, api_headers, default_headers, now, cur, log, playlist, started>>

\* ------------------------------------------------------------ get_formats
\* A playlist line: its content between leading and trailing blanks.
Line(padded, content) == [padded |-> padded, content |-> content]

\* line.strip()
strip(line) == line.content

StreamInf(n) ==
    [kind |-> "stream-inf", bandwidth |-> n, width |-> n, height |-> n,
     framerate |-> <<"fps", n>>, codecs |-> <<"codecs", n>>]
Uri(n) == [kind |-> "uri", name |-> n]
Blank == [kind |-> "blank"]

Lines ==
    { Line(FALSE, StreamInf(1)), Line(TRUE, StreamInf(2)),
      Line(TRUE, Uri(1)), Line(FALSE, Blank) }

\* r.text.split("\n") always gives at least one line.
Playlists == UNION { [1..n -> Lines] : n \in 1..MaxLines }
LongPlaylists == UNION { [1..n -> Lines] : n \in 1..MaxLongLines }

\* re.match(PLAYLIST_REG, ...): the variant-stream pattern.
PlaylistMatch(content) == content.kind = "stream-inf"

\* The url taken from the matching line itself (enumerate from 0).
FormatOffByOne(lines, i) ==
    [url |-> strip(lines[i]),
     bandwidth |-> strip(lines[i]).bandwidth,
     width |-> strip(lines[i]).width,
     height |-> strip(lines[i]).height,
     framerate |-> strip(lines[i]).framerate,
     codecs |-> strip(lines[i]).codecs]

\* lines 300-307: the record appended for a match on the i-th line (i from 1);
\* lines[i] is the line after it.
Format(lines, i) ==
    [url |-> strip(lines[i + 1]),
     bandwidth |-> strip(lines[i]).bandwidth,
     width |-> strip(lines[i]).width,
     height |-> strip(lines[i]).height,
     framerate |-> strip(lines[i]).framerate,
     codecs |-> strip(lines[i]).codecs]

\* lines 297-308: the scan from the i-th line on; lines[i] past the end raises.
RECURSIVE Scan(_, _, _)
Scan(lines, i, formats) ==
    IF i > Len(lines) THEN [status |-> "ok", value |-> formats]
    ELSE IF PlaylistMatch(strip(lines[i]))
    THEN IF i + 1 > Len(lines)
         THEN [status |-> "IndexError", value |-> <<>>]
         ELSE Scan(lines, i + 1, Append(formats, Format(lines, i)))
    ELSE Scan(lines, i + 1, formats)

\* lines 294-295: httpx.get(url), outside _make_request.
get_formats(c) ==
    /\ pc = "idle"
    /\ cur' = Call(c, "get_formats", PLAYLIST, <<>>, NoParams, now, config[c], c \notin started)
    /\ log' = <<Request(c, PLAYLIST, <<>>, NoParams, EmptyDict, FALSE)>>
    /\ pc' = PLAYLIST
    /\ last' = NoLast
    /\ ret' = NoRet
    /\ playlist' = <<>>
    /\ UNCHANGED <<config, api_headers, default_headers, now, started>>

\* lines 296-308: the playlist text, one of texts, arrives and is scanned.
PlaylistArrives(c, texts) ==
    /\ pc = PLAYLIST
    /\ cur.client = c
    /\ \E lines \in texts :
        /\ playlist' = lines
        /\ Return(c, "get_formats", Scan(lines, 1, <<>>).status, Scan(lines, 1, <<>>).value)
    /\ UNCHANGED <<config, api_headers, default_headers, now, cur, log, last, started>>

PlaylistResponse(c) == PlaylistArrives(c, Playlists)

LongPlaylistResponse(c) == PlaylistArrives(c, LongPlaylists)

\* The clock.  It is read once per call, by _update_session before the call's
\* first request, so time that passes during a call counts as passing after it.
Tick ==
    /\ pc = "idle"
    /\ now < MaxTime
    /\ now' = now + 1
    /\ UNCHANGED <<config, api_headers, default_headers, pc, cur, log, last, ret, playlist,
                   started>>

Next ==
    \/ Tick
    \/ \E c \in Clients :
        \/ start(c)
        \/ search(c)
        \/ get_series(c)
        \/ get_seasons(c)
        \/ get_episodes(c)
        \/ get_streams(c)
        \/ get_similar(c)
        \/ news_feed(c)
        \/ browse(c)
        \/ TokenResponse(c)
        \/ IndexResponse(c)
        \/ ProfileResponse(c)
        \/ OwnResponse(c)
        \/ get_formats(c)
        \/ PlaylistResponse(c)

Spec == Init /\ [][Next]_vars

\* get_formats alone, on playlists of up to MaxLongLines lines.
NextPlaylist ==
    \E c \in Clients :
        \/ get_formats(c)
        \/ LongPlaylistResponse(c)

SpecPlaylist == Init /\ [][NextPlaylist]_vars

\* Two Crunchyroll objects in one process: each has its own config and
\* api_headers, and both use the one default dict of _make_request.
InitTwo ==
    /\ config = [c \in TwoClients |-> EmptyDict]
    /\ api_headers = [c \in TwoClients |-> InitApiHeaders]
    /\ default_headers = EmptyDict
    /\ now = 0
    /\ pc = "idle"
    /\ cur = NoCall
    /\ log = <<>>
    /\ last = NoLast
    /\ ret = NoRet
    /\ playlist = <<>>
    /\ started = {}

\* The answers the server gives the two clients: under status 200, the
\* endpoint's payload (the first signing bundle, at any expiry) or a body that
\* does not decode.
PlainAnswer ==
    /\ last'.status = 200
    /\ DOMAIN last'.body \cap {"error", "message", "code"} = {}
    /\ "cms" \in DOMAIN last'.body => last'.body["cms"]["bucket"] = <<"bucket", 1>>

TokenAnswer(c) == TokenResponse(c) /\ PlainAnswer

IndexAnswer(c) == IndexResponse(c) /\ PlainAnswer

ProfileAnswer(c) == ProfileResponse(c) /\ PlainAnswer

OwnAnswer(c) == OwnResponse(c) /\ PlainAnswer

NextTwo ==
    \/ Tick
    \/ \E c \in TwoClients :
        \/ start(c)
        \/ search(c)
        \/ TokenAnswer(c)
        \/ IndexAnswer(c)
        \/ ProfileAnswer(c)
        \/ OwnAnswer(c)

SpecTwo == InitTwo /\ [][NextTwo]_vars

TypeOK ==
    /\ now \in Times
    /\ pc \in {"idle"} \cup LoginEndpoints \cup CmsEndpoints
              \cup {SEARCH_ENDPOINT, SIMILAR_ENDPOINT, NEWSFEED_ENDPOINT, BROWSE_ENDPOINT, PLAYLIST}
    /\ Len(log) <= 4
    /\ started \subseteq Clients

\* ===================================================================
\* Properties
\* ===================================================================
\* The public operations that go through _make_request, and all of them.
DispatchedOps ==
    {"search", "get_series", "get_seasons", "get_episodes", "get_streams",
     "get_similar", "news_feed", "browse"}
NonLoginOps == DispatchedOps \cup {"get_formats"}

\* A client as __init__ leaves it, on which start() was never called.
Fresh(c) == DOMAIN config[c] = {} /\ c \notin started

TokenRequests == { i \in DOMAIN log : log[i].endpoint = TOKEN_ENDPOINT }
LoginRequests == { i \in DOMAIN log : log[i].login }
OwnRequests == { i \in DOMAIN log : ~log[i].login }

Empty(cfg) == DOMAIN cfg = {}
Complete(cfg) == {"access_token", "cms"} \subseteq DOMAIN cfg

\* The session's cms.expires was strictly before / strictly after the clock
\* when the call was made.
ExpiredAtCall == cur.had_cms /\ cur.called_at > cur.expires
ValidAtCall == cur.had_cms /\ cur.called_at < cur.expires

\* The call has sent one login sequence, started once, and its own request
\* (if sent) comes after the token, index and profile requests.
OneLoginThenOwn ==
    /\ Len(log) >= 1
    /\ log[1].endpoint = TOKEN_ENDPOINT
    /\ Cardinality(TokenRequests) = 1
    /\ \A i \in OwnRequests :
        /\ i = 4
        /\ log[2].endpoint = INDEX_ENDPOINT
        /\ log[3].endpoint = PROFILE_ENDPOINT
        /\ log[4].endpoint = cur.endpoint
    /\ (pc = "idle" /\ ret.status = "ok") => Len(log) = 4

\* The call has sent its own request and nothing else.
OwnOnly ==
    /\ LoginRequests = {}
    /\ Len(log) = 1
    /\ log[1].endpoint = cur.endpoint

\* C1 as stated: on a fresh client every public non-login operation,
\* get_formats included, fails with NotStarted and sends no request.
C1_EveryOperationGuarded ==
    \A c \in Clients :
        (Fresh(c) /\ cur.client = c /\ cur.op \in NonLoginOps)
            => (pc = "idle" /\ ret.status = "NotStarted" /\ Len(log) = 0)

\* C1 amended: on a fresh client every public operation that goes through
\* _make_request fails with NotStarted and sends no request; get_formats
\* does not look at the session and sends its playlist request.
C1_DispatchedOperationsGuarded ==
    \A c \in Clients :
        /\ (Fresh(c) /\ cur.client = c /\ cur.op \in DispatchedOps)
              => (pc = "idle" /\ ret.status = "NotStarted" /\ Len(log) = 0)
        /\ (Fresh(c) /\ cur.client = c /\ cur.op = "get_formats")
              => (Len(log) = 1 /\ log[1].endpoint = PLAYLIST /\ ret.status # "NotStarted")

C1_Witness ==
    \E c \in Clients :
        /\ Fresh(c) /\ cur.client = c /\ cur.op = "get_series"
        /\ pc = "idle" /\ ret.status = "NotStarted"

\* C2 as stated: with cms.expires strictly before the clock any API operation,
\* get_formats included, runs exactly one login sequence and sends its own
\* request only after it; with cms.expires strictly after the clock it sends
\* its own request and no login request.
C2_AnyOperationGated ==
    (cur.op \in NonLoginOps /\ cur.logged_in) =>
        /\ ExpiredAtCall => OneLoginThenOwn
        /\ ValidAtCall => OwnOnly

\* C2 amended: the same for the operations that go through _make_request;
\* get_formats sends its playlist request and never a login request.
C2_DispatchedOperationGated ==
    /\ cur.op \in DispatchedOps =>
        /\ ExpiredAtCall => OneLoginThenOwn
        /\ ValidAtCall => OwnOnly
    /\ cur.op = "get_formats" => OwnOnly

C2_Witness ==
    /\ cur.op = "get_episodes" /\ ExpiredAtCall
    /\ pc = "idle" /\ ret.status = "ok" /\ Len(log) = 4

\* C3: a non-login call made when the clock is at or past cms.expires
\* (equality included) runs a login sequence before its own request.
C3_RefreshAtOrPastExpiry ==
    (cur.op \in DispatchedOps /\ cur.logged_in /\ cur.called_at >= cur.expires)
        => OneLoginThenOwn

\* C4: when control is back with the caller the session is empty or complete,
\* and no operation's own request is in flight from a session that has
\* access_token but no cms.
C4_EmptyOrComplete ==
    /\ pc = "idle" => \A c \in Clients : Empty(config[c]) \/ Complete(config[c])
    /\ (pc \notin {"idle", PLAYLIST} \cup LoginEndpoints)
          => ~("access_token" \in DOMAIN config[cur.client]
               /\ "cms" \notin DOMAIN config[cur.client])

\* C5: the token request of the login of the first start(), and of every
\* login an expired session triggers, carries the fixed client authorization
\* as its Authorization header.
C5_TokenRequestUsesClientAuthorization ==
    ((cur.op = "start" /\ cur.first_start) \/ (cur.op \in DispatchedOps /\ cur.logged_in))
        => \A i \in TokenRequests : log[i].headers["Authorization"] = AUTHORIZATION

\* C6: after a re-login, the request of a content operation carries the
\* bucket, Policy, Signature and Key-Pair-Id of the session's current cms.
C6_RequestUsesCurrentCms ==
    \A i \in OwnRequests :
        (log[i].endpoint \in CmsEndpoints /\ i = 4 /\ cur.logged_in)
            => /\ log[i].params = CmsParams(config[log[i].client])
               /\ log[i].url_args[1] = Get(Cms(config[log[i].client]), "bucket", None)

\* The response shapes of the classification.
GrantShape(b) == Get(b, "error", "absent") = "invalid_grant"
MessageCodeShape(b) == {"message", "code"} \subseteq DOMAIN b

\* C7: a decoded body whose error field is not invalid_grant (absent or any
\* other value) and that has message and code is an ApiError, whatever the
\* status.
C7_MessageCodeIsApiError ==
    (last.outcome # "none" /\ last.json /\ ~GrantShape(last.body)
        /\ MessageCodeShape(last.body) /\ cur.logged_in)
        => last.outcome = "ApiError"

C9_ReturnOnlyOn200 ==
    last.outcome # "none" =>
        /\ last.outcome = "ok" => last.status = 200
        /\ last.status # 200
              => last.outcome \in {"AuthError", "ApiError", "HttpError", "DecodeError"}
        /\ (last.json /\ ~GrantShape(last.body) /\ ~MessageCodeShape(last.body))
              => last.outcome = (IF last.status = 200 THEN "ok" ELSE "HttpError")
        /\ (pc = "idle" /\ cur.op \in DispatchedOps) =>
              /\ ret.status = last.outcome
              /\ DOMAIN ret.value = (IF last.outcome = "ok" THEN DOMAIN last.body ELSE {})
              /\ \A k \in DOMAIN ret.value : ret.value[k] = last.body[k]
        /\ (pc = "idle" /\ last.outcome # "ok") => ret.status = last.outcome
        /\ (last.outcome = "ok" /\ last.endpoint \in LoginEndpoints)
              => \A k \in DOMAIN last.body : config[cur.client][k] = last.body[k]

C9_Witness ==
    /\ pc = "idle" /\ cur.op = "browse"
    /\ last.status = 401 /\ "items" \in DOMAIN last.body
    /\ ret.status = "HttpError" /\ DOMAIN ret.value = {}

\* The request a step has just sent, if it sent one.
Sent(endpoint) ==
    /\ Len(log') >= 1
    /\ log'[Len(log')].endpoint = endpoint
    /\ pc' = endpoint
    /\ pc # endpoint

\* C10: a login sends token, index, profile in this order, each after the one
\* before succeeded; a failed step ends the call there: no request is sent,
\* nothing is merged into the session, the error goes to the caller.
C10_LoginStep ==
    /\ Sent(TOKEN_ENDPOINT) => (pc = "idle" /\ Len(log') = 1)
    /\ Sent(INDEX_ENDPOINT)
          => /\ pc = TOKEN_ENDPOINT
             /\ last'.endpoint = TOKEN_ENDPOINT /\ last'.outcome = "ok"
             /\ Len(log') = 2 /\ log'[1] = log[1]
    /\ Sent(PROFILE_ENDPOINT)
          => /\ pc = INDEX_ENDPOINT
             /\ last'.endpoint = INDEX_ENDPOINT /\ last'.outcome = "ok"
             /\ Len(log') = 3 /\ log'[2] = log[2]
    /\ (pc \in LoginEndpoints /\ pc' # pc /\ last'.outcome # "ok")
          => /\ pc' = "idle"
             /\ log' = log
             /\ config' = config
             /\ ret'.status = last'.outcome

C10_LoginInOrder == [][C10_LoginStep]_vars

C10_Witness ==
    /\ pc = "idle" /\ Len(log) = 2
    /\ last.endpoint = INDEX_ENDPOINT /\ last.outcome = "ApiError"
    /\ "access_token" \in DOMAIN config[cur.client]
    /\ "cms" \notin DOMAIN config[cur.client]

\* The lines of the playlist that match the variant-stream pattern.
Matching == { i \in DOMAIN playlist : strip(playlist[i]).kind = "stream-inf" }

\* Every matching line is followed by another line.
WellFormed == \A i \in Matching : i < Len(playlist)

\* get_formats has returned from a playlist.
Parsed == pc = "idle" /\ cur.op = "get_formats" /\ Len(playlist) >= 1

\* C11: from a playlist in which every matching line is followed by a line,
\* the scan gives one record per matching line, in line order, repeated
\* lines included; the k-th record has the attributes of the k-th matching
\* line and as url the content of the line after it without its blanks.
C11_OneRecordPerMatch ==
    (Parsed /\ WellFormed) =>
        /\ ret.status = "ok"
        /\ Len(ret.value) = Cardinality(Matching)
        /\ \A i \in Matching :
            LET k == Cardinality({ j \in Matching : j <= i }) IN
            /\ ret.value[k].url = playlist[i + 1].content
            /\ ret.value[k].bandwidth = playlist[i].content.bandwidth
            /\ ret.value[k].width = playlist[i].content.width
            /\ ret.value[k].height = playlist[i].content.height
            /\ ret.value[k].framerate = playlist[i].content.framerate
            /\ ret.value[k].codecs = playlist[i].content.codecs

C11_Witness ==
    /\ Parsed /\ WellFormed
    /\ Len(playlist) = 4 /\ Matching = {1, 3}
    /\ playlist[1] = playlist[3] /\ playlist[2] = playlist[4]
    /\ playlist[2].padded /\ playlist[2].content.kind = "uri"
    /\ Len(ret.value) = 2 /\ ret.value[1] = ret.value[2]

\* C12: from a playlist whose last line matches and has no line after it, the
\* scan gives the records of the earlier matches or fails with
\* MalformedPlaylist; it does not fail on the index past the end.
C12_LastLineMatchHandled ==
    (Parsed /\ Len(playlist) \in Matching) =>
        \/ ret.status = "MalformedPlaylist"
        \/ /\ ret.status = "ok"
           /\ Len(ret.value) = Cardinality(Matching) - 1

\* The call is a dispatched operation made with cms.expires strictly before
\* the clock, so that _update_session logs in again.
Relogin == cur.op \in DispatchedOps /\ ExpiredAtCall

C13_Step ==
    Relogin =>
        /\ (pc = TOKEN_ENDPOINT /\ pc' = INDEX_ENDPOINT) =>
              config'[cur.client]["access_token"] = last'.body["access_token"]
        /\ (pc \in {INDEX_ENDPOINT, PROFILE_ENDPOINT}) =>
              config'[cur.client]["access_token"] = config[cur.client]["access_token"]
        /\ (pc = PROFILE_ENDPOINT /\ pc' = cur.endpoint) =>
              /\ Len(log') = 4
              /\ log'[4].endpoint = cur.endpoint
              /\ Get(log'[4].headers, "Authorization", None)
                    = Bearer("Bearer", config[cur.client]["access_token"])

\* C13: when a dispatched operation logs in again because the session has
\* expired, the access token of the token response is the session's token
\* from then to the end of the login, and the operation's own request, sent
\* after the profile step, carries that token in its Authorization header.
C13_OwnRequestCarriesNewToken == [][C13_Step]_vars

C13_Witness ==
    /\ Relogin /\ pc = "idle" /\ ret.status = "ok" /\ Len(log) = 4
    /\ cur.token # config[cur.client]["access_token"]
    /\ log[4].headers["Authorization"] = Bearer("Bearer", config[cur.client]["access_token"])
    /\ log[4].headers["Authorization"] # Bearer("Bearer", cur.token)

\* C14: _update_session, run by a dispatched operation on a session that a
\* login has filled, logs in when cms.expires is at or before the clock and
\* sends no login request otherwise.
C14_LoginWhenDue ==
    (cur.op \in DispatchedOps /\ cur.logged_in) =>
        IF cur.had_cms /\ cur.expires <= cur.called_at
        THEN Len(log) >= 1 /\ log[1].endpoint = TOKEN_ENDPOINT
        ELSE LoginRequests = {}

\* The number of requests the call has sent to an endpoint.
SentTo(endpoint) == Cardinality({ i \in DOMAIN log : log[i].endpoint = endpoint })

\* C15: when a step of the login that an expired session set off fails, the
\* operation ends there with that step's error and without a value: the
\* failed request is the last one sent, none of them is the operation's own
\* and no login endpoint was asked twice.
C15_FailedReloginSurfaces ==
    (Relogin /\ last.endpoint \in LoginEndpoints /\ last.outcome # "ok") =>
        /\ pc = "idle"
        /\ ret.status = last.outcome
        /\ ret.status # "ok"
        /\ ret.value = EmptyDict
        /\ OwnRequests = {}
        /\ log[Len(log)].endpoint = last.endpoint
        /\ \A e \in LoginEndpoints : SentTo(e) = 1 \/ (SentTo(e) = 0 /\ Len(log) < 3)

C15_Witness ==
    /\ Relogin /\ cur.op = "get_similar"
    /\ last.endpoint = PROFILE_ENDPOINT /\ last.outcome = "ApiError"
    /\ pc = "idle" /\ ret.status = "ApiError" /\ Len(log) = 3

C16_Step ==
    /\ Len(log') <= 4
    /\ \A e \in LoginEndpoints :
          Cardinality({ i \in DOMAIN log' : log'[i].endpoint = e }) <= 1
    /\ \A i \in DOMAIN log' : log'[i].login => i <= 3
    /\ (pc \in LoginEndpoints /\ pc' # "idle") =>
          log'[Len(log')].endpoint # TOKEN_ENDPOINT
    /\ pc # "idle" =>
          \/ pc' = "idle" /\ log' = log
          \/ pc' # "idle" /\ Len(log') = Len(log) + 1 /\ SubSeq(log', 1, Len(log)) = log

\* C16: a request sent from within a login is never a token request, so no
\* login starts inside a login, whatever cms.expires the session then holds;
\* a public call sends at most four requests, of which at most the first
\* three are login requests and none goes twice to a login endpoint; and
\* every step of a call in progress either ends the call or sends exactly one
\* more request, so the call ends after at most four responses.
C16_OneLoginFourRequests == [][C16_Step]_vars

C16_Witness ==
    /\ Relogin /\ pc = "idle" /\ ret.status = "ok"
    /\ Len(log) = 4 /\ SentTo(TOKEN_ENDPOINT) = 1
    /\ cur.called_at = now
    /\ NeedsLogin(config[cur.client], now)
    /\ config[cur.client]["access_token"] # cur.token

\* The bearer values of the tokens the server issues to a client.
TokensOf(c) ==
    { Bearer(b["token_type"], b["access_token"]) : b \in Payloads(c, TOKEN_ENDPOINT) }

\* C17: with two clients whose calls follow one another in any order, the
\* Authorization header of a request sent by one client is never the bearer
\* value of a token issued to the other, although the requests made without
\* headers of their own all update and send the one default dict.
C17_NoForeignToken ==
    \A i \in DOMAIN log :
        \A d \in TwoClients \ {log[i].client} :
            Get(log[i].headers, "Authorization", None) \notin TokensOf(d)

C17_Witness ==
    /\ cur.client = 2 /\ cur.op = "search" /\ pc = SEARCH_ENDPOINT
    /\ Len(log) = 1 /\ ~log[1].login
    /\ log[1].headers = default_headers
    /\ log[1].headers["Authorization"] \in TokensOf(2)
    /\ "Authorization" \in DOMAIN api_headers[1]
    /\ api_headers[1]["Authorization"] \in TokensOf(1)
====
